---------------------------- MODULE Spec2Model ----------------------------
(***************************************************************************)
(* Smart-meter stock management (app.py): the record store kept in         *)
(* data/stock_requests.csv, the sessions of the Streamlit application and  *)
(* the handlers of the five role panels.                                   *)
(*                                                                         *)
(* A handler is one script run: it reads the whole CSV (load_data),        *)
(* changes the frame in memory and rewrites the whole CSV (save_data).     *)
(* Spec runs every handler as one step.  SpecRace splits a handler at its  *)
(* two file accesses, so that script runs of two sessions interleave       *)
(* between the read and the write (Streamlit runs every session's script   *)
(* in a thread of its own, and the code takes no lock).                    *)
(*                                                                         *)
(* save_data also archives the data folder (data_backup.zip, copied to the *)
(* OneDrive folder), and every script run starts with                     *)
(* auto_restore_if_needed.  Spec, SpecRace, SpecStale and SpecMail take    *)
(* every file operation to succeed; SpecBackup and SpecRestore let the     *)
(* CSV write, the archive, the copy and the unpacking fail, and run the    *)
(* backup as a step of its own.                                            *)
(*                                                                         *)
(* Columns modelled: the fourteen that the lifecycle reads or writes.      *)
(* Photo_Path, Contractor_Notes, City_Notes, Dispatch_Date, Dispatch_Note  *)
(* and Dispatch_Docs are free text or file references that no handler      *)
(* branches on; they are left out.                                         *)
(***************************************************************************)
EXTENDS Integers, Sequences, FiniteSets, TLC

VARIABLES
    disk,    \* DATA_FILE: the rows of stock_requests.csv, in file order
    clock,   \* datetime.now(), in whole seconds
    auth,    \* st.session_state.auth of every session
    run,     \* a script run between its load_data and its save_data
    edits,   \* how many times "Save Changes" has rewritten the CSV
    zip,     \* BACKUP_FILE: data_backup.zip, the archive of the data folder
    onedrive \* the latest data_backup_*.zip of the OneDrive backup folder

vars == <<disk, clock, auth, run, edits, zip, onedrive>>

\* ---------------------------------------------------------------- bounds

MaxClock == 1      \* seconds the clock may advance
MaxRecords == 2    \* rows the CSV may hold
MaxQty == 1        \* largest quantity a submission form is given
MaxEdits == 1      \* manager edits that are explored

\* -------------------------------------------------------------- sessions

\* The browser sessions, and the user name each one types at the login form:
\* one per user that is modelled, a second one of the city reviewer, and one
\* of somebody who is no user.
TypedUsername ==
    [ c1 |-> "Deezlo", e1 |-> "ethekwini", e2 |-> "ethekwini", i1 |-> "installer1",
      i2 |-> "installer2", r1 |-> "Reece", r2 |-> "Reece", m1 |-> "manufacturer1",
      x1 |-> "intruder" ]

Sessions == DOMAIN TypedUsername

None == "None"     \* Python's None
NaN == "NaN"       \* pandas' missing value (float nan)

hash_password(p) == "sha256:" \o p

raw_users ==
    [ Deezlo        |-> [name |-> "Deezlo",        password |-> "Deezlo123",       role |-> "contractor"],
      Nimba         |-> [name |-> "Nimba",         password |-> "Nimba123",        role |-> "contractor"],
      ethekwini     |-> [name |-> "ethekwini",     password |-> "ethekwini123",    role |-> "city"],
      installer1    |-> [name |-> "installer1",    password |-> "installer123",    role |-> "installer"],
      installer2    |-> [name |-> "installer2",    password |-> "installer123",    role |-> "installer"],
      Reece         |-> [name |-> "Reece",         password |-> "Reece123!",       role |-> "manager"],
      manufacturer1 |-> [name |-> "manufacturer1", password |-> "manufacturer123", role |-> "manufacturer"] ]

CREDENTIALS ==
    [u \in DOMAIN raw_users |->
        [name |-> raw_users[u].name,
         password_hash |-> hash_password(raw_users[u].password),
         role |-> raw_users[u].role]]

LoggedOut == [logged_in |-> FALSE, username |-> None, role |-> None, name |-> None]

\* ------------------------------------------------------------- the store

Columns ==
    {"Date_Requested", "Request_ID", "Contractor_Name", "Installer_Name",
     "Meter_Type", "Requested_Qty", "Approved_Qty", "Status", "Decline_Reason",
     "Date_Approved", "Date_Received", "Manufacturer_Name", "Batch_Number",
     "Dispatch_Qty"}

PendingVerification == "Pending Verification"
PendingCityApproval == "Pending City Approval (Manufacturer Delivery)"
ApprovedIssued == "Approved / Issued"
Declined == "Declined"
Received == "Received"

Statuses == {PendingVerification, PendingCityApproval, ApprovedIssued, Declined, Received}
PendingStatuses == {PendingVerification, PendingCityApproval}

\* datetime.now().strftime(...): one text per second, both formats injective
strftime(t) == "T" \o ToString(t)

\* str(qty) of a number_input value
str(n) == ToString(n)

\* int(text): the number whose decimal text it is; -1 stands for ValueError
int(s) == IF \E n \in 0..(MaxQty + 1) : ToString(n) = s
            THEN CHOOSE n \in 0..(MaxQty + 1) : ToString(n) = s
            ELSE -1

\* pd.read_csv(DATA_FILE, dtype=str): an empty cell is read as NaN
read_cell(c) == IF c = "" THEN NaN ELSE c

\* df.to_csv(DATA_FILE, index=False): NaN is written as an empty cell
write_cell(v) == IF v = NaN THEN "" ELSE v

load_data(file) == [i \in DOMAIN file |-> [c \in Columns |-> read_cell(file[i][c])]]

to_csv(df) == [i \in DOMAIN df |-> [c \in Columns |-> write_cell(df[i][c])]]

\* _safe(val): "" for None and NaN, the text otherwise
safe(v) == IF v = None \/ v = NaN THEN "" ELSE v

\* Python truthiness of a cell: "" is false; NaN (a float) and any text are true
truthy(v) == v # ""


\* ------------------------------------------------- text helpers (tables)

\* str.strip() and str.lower() on the texts the forms below are given
strip(s) == IF s = " " THEN "" ELSE s

lower(s) == CASE s = "Installer1" -> "installer1"
              [] s = "Reece" -> "reece"
              [] s = "Deezlo" -> "deezlo"
              [] s = "Nimba" -> "nimba"
              [] OTHER -> s

\* item_type.replace(' ', '_')[:10]
item_suffix(item_type) == CASE item_type = "DN15 Meter" -> "DN15_Meter"
                            [] item_type = "CIU Keypad" -> "CIU_Keypad"
                            [] OTHER -> item_type

generate_request_id(prefix, now) == prefix \o "-" \o strftime(now)

\* Series.str.contains("Approved", na=False) on the Status column
contains_Approved(status) == status = ApprovedIssued

\* str.startswith("Pending City Approval"); Status is never NaN here
startswith_PendingCityApproval(status) == status = PendingCityApproval

\* ------------------------------------------------------- frame helpers

Request_IDs(df) == {df[i]["Request_ID"] : i \in DOMAIN df}

RowsOf(df, id) == {i \in DOMAIN df : df[i]["Request_ID"] = id}

\* df[df["Request_ID"] == id].iloc[0]
first_row(df, id) == df[CHOOSE i \in RowsOf(df, id) : \A j \in RowsOf(df, id) : i <= j]

\* df.loc[df["Request_ID"] == id, col] = upd[col], for every col of upd
loc_set(df, id, upd) ==
    [i \in DOMAIN df |->
        IF df[i]["Request_ID"] = id
          THEN [c \in Columns |-> IF c \in DOMAIN upd THEN upd[c] ELSE df[i][c]]
          ELSE df[i]]

\* df.at[i, col] = upd[col], for every col of upd
at_set(df, i, upd) ==
    [j \in DOMAIN df |->
        IF j = i
          THEN [c \in Columns |-> IF c \in DOMAIN upd THEN upd[c] ELSE df[j][c]]
          ELSE df[j]]

\* df[df["Request_ID"] != id]
RECURSIVE drop_id(_, _)
drop_id(df, id) ==
    IF df = <<>> THEN <<>>
    ELSE IF Head(df)["Request_ID"] = id THEN drop_id(Tail(df), id)
    ELSE <<Head(df)>> \o drop_id(Tail(df), id)

\* save_data(df): the CSV after df.to_csv(DATA_FILE, index=False)
save_data(df) == to_csv(df)

\* What a handler hands back: the frame, whether it called save_data, and
\* the message it showed.
Result(df, saved, msg) == [df |-> df, saved |-> saved, msg |-> msg]

\* ------------------------------------------------- backup and restore
\* An archive: whether the zip file exists, and the stock_requests.csv in it.

Absent == [exists |-> FALSE, csv |-> <<>>]

\* shutil.make_archive(..., 'zip', root_dir=DATA_DIR)
make_archive(store) == [exists |-> TRUE, csv |-> store]

\* shutil.unpack_archive(archive, extract_dir=DATA_DIR): the CSV of the
\* archive replaces the one of the data folder
unpack_archive(archive) == archive.csv

ZipOutcomes == {"created", "failed, old archive removed", "failed, old archive kept"}

\* create_local_zip: BACKUP_FILE afterwards.  The old archive is unlinked
\* (a failure to unlink is passed over), then the data folder is archived; an
\* exception leaves no archive, or the old one.
create_local_zip(old, store, outcome) ==
    CASE outcome = "created" -> make_archive(store)
      [] outcome = "failed, old archive removed" -> Absent
      [] OTHER -> old

\* copy_zip_to_onedrive: the latest archive of the OneDrive folder afterwards
copy_zip_to_onedrive(latest, zip_path, copied) ==
    IF copied THEN zip_path ELSE latest

\* backup_data: the local archive, and the OneDrive copy when there is one
backup_data(old, latest, store, outcome, copied) ==
    LET zip_path == create_local_zip(old, store, outcome)
    IN [zip |-> zip_path,
        onedrive |-> IF outcome = "created"
                       THEN copy_zip_to_onedrive(latest, zip_path, copied)
                       ELSE latest]

\* restore_from_zip as it would be if the files of the data folder were kept
\* and the rows of the archive added to them
restore_from_zip_merging(store, archive, unpacks) ==
    IF unpacks THEN [store |-> store \o unpack_archive(archive), ok |-> TRUE]
    ELSE [store |-> <<>>, ok |-> FALSE]

\* restore_from_zip: every file of the data folder is removed, then the
\* archive is unpacked; False when the unpacking raises
restore_from_zip(store, archive, unpacks) ==
    IF unpacks THEN [store |-> unpack_archive(archive), ok |-> TRUE]
    ELSE [store |-> <<>>, ok |-> FALSE]

\* auto_restore_if_needed, at the start of every script run: nothing when the
\* CSV holds a record; otherwise the local archive is unpacked, or else the
\* latest OneDrive archive restored.
auto_restore_if_needed(store, local, latest, unpacks_local, unpacks_latest) ==
    IF store # <<>> THEN store
    ELSE IF local.exists /\ unpacks_local THEN unpack_archive(local)
    ELSE IF latest.exists THEN restore_from_zip(store, latest, unpacks_latest).store
    ELSE store

\* save_data, its first try block: the CSV after df.to_csv, or as it was when
\* the write raises (the exception becomes a warning)
write_csv(store, df, written) == IF written THEN to_csv(df) ELSE store

\* ------------------------------------------------------------ handlers
\* Each handler is the body of one button's "if": from the frame the run
\* loaded and the widget values, the frame it saves and what it reports.
\* The two submit handlers call datetime.now() once for the base id and once
\* for every row they build: their now is the sequence of these readings
\* (the id's, the meter row's, the keypad row's).  Every other handler reads
\* the clock once.

ItemTypes == <<"DN15 Meter", "CIU Keypad">>

\* contractor_ui, the row built for one item type
contractor_entry(base_rid, item_type, qty, contractor_name, installer_name, now) ==
    [Date_Requested |-> strftime(now),
     Request_ID |-> base_rid \o "-" \o item_suffix(item_type),
     Contractor_Name |-> contractor_name,
     Installer_Name |-> installer_name,
     Meter_Type |-> item_type,
     Requested_Qty |-> str(qty),
     Approved_Qty |-> "",
     Status |-> PendingVerification,
     Decline_Reason |-> "",
     Date_Approved |-> "",
     Date_Received |-> "",
     Manufacturer_Name |-> "",
     Batch_Number |-> "",
     Dispatch_Qty |-> ""]

\* manufacturer_ui, the row built for one item type
manufacturer_entry(base_rid, item_type, qty, manu_name, batch_num, now) ==
    [Date_Requested |-> strftime(now),
     Request_ID |-> base_rid \o "-" \o item_suffix(item_type),
     Contractor_Name |-> "",
     Installer_Name |-> "",
     Meter_Type |-> item_type,
     Requested_Qty |-> "",
     Approved_Qty |-> "",
     Status |-> PendingCityApproval,
     Decline_Reason |-> "",
     Date_Approved |-> "",
     Date_Received |-> "",
     Manufacturer_Name |-> manu_name,
     Batch_Number |-> batch_num,
     Dispatch_Qty |-> str(qty)]

\* "Submit Request" as it would be if a row were built for every item type,
\* whatever its quantity
contractor_submit_every_item(df, contractor_name, installer_name, meter_qty, keypad_qty, now) ==
    IF installer_name = "" THEN Result(df, FALSE, "Please enter installer name")
    ELSE IF meter_qty = 0 /\ keypad_qty = 0
      THEN Result(df, FALSE, "Please request at least one item.")
    ELSE
      LET base_rid == generate_request_id("REQ", now[1])
          qtys == <<meter_qty, keypad_qty>>
          rows == [k \in 1..2 |->
                     contractor_entry(base_rid, ItemTypes[k], qtys[k],
                                      contractor_name, installer_name, now[k + 1])]
      IN Result(df \o rows, TRUE, "Request(s) submitted")

\* contractor_ui: "Submit Request"
contractor_submit(df, contractor_name, installer_name, meter_qty, keypad_qty, now) ==
    IF installer_name = "" THEN Result(df, FALSE, "Please enter installer name")
    ELSE IF meter_qty = 0 /\ keypad_qty = 0
      THEN Result(df, FALSE, "Please request at least one item.")
    ELSE
      LET base_rid == generate_request_id("REQ", now[1])
          qtys == <<meter_qty, keypad_qty>>
          entries == SelectSeq(
              [k \in 1..2 |-> [item |-> ItemTypes[k], qty |-> qtys[k], at |-> now[k + 1]]],
              LAMBDA e : e.qty > 0)
          rows == [k \in DOMAIN entries |->
                     contractor_entry(base_rid, entries[k].item, entries[k].qty,
                                      contractor_name, installer_name, entries[k].at)]
      IN Result(df \o rows, TRUE, "Request(s) submitted")

\* "Submit Dispatch to City" as it would be if the batch number were tested
\* without strip()
manufacturer_submit_unstripped(df, manu_name, batch_num, manu_meter_qty, manu_keypad_qty, now) ==
    IF batch_num = "" THEN Result(df, FALSE, "Please enter a batch number.")
    ELSE IF manu_meter_qty = 0 /\ manu_keypad_qty = 0
      THEN Result(df, FALSE, "Please enter at least one dispatch quantity for a product.")
    ELSE
      LET base_rid == generate_request_id("MANU", now[1])
          qtys == <<manu_meter_qty, manu_keypad_qty>>
          entries == SelectSeq(
              [k \in 1..2 |-> [item |-> ItemTypes[k], qty |-> qtys[k], at |-> now[k + 1]]],
              LAMBDA e : e.qty > 0)
          rows == [k \in DOMAIN entries |->
                     manufacturer_entry(base_rid, entries[k].item, entries[k].qty,
                                        manu_name, batch_num, entries[k].at)]
      IN Result(df \o rows, TRUE, "Dispatch submitted to City")

\* manufacturer_ui: "Submit Dispatch to City"
manufacturer_submit(df, manu_name, batch_num, manu_meter_qty, manu_keypad_qty, now) ==
    IF strip(batch_num) = "" THEN Result(df, FALSE, "Please enter a batch number.")
    ELSE IF manu_meter_qty = 0 /\ manu_keypad_qty = 0
      THEN Result(df, FALSE, "Please enter at least one dispatch quantity for a product.")
    ELSE
      LET base_rid == generate_request_id("MANU", now[1])
          qtys == <<manu_meter_qty, manu_keypad_qty>>
          entries == SelectSeq(
              [k \in 1..2 |-> [item |-> ItemTypes[k], qty |-> qtys[k], at |-> now[k + 1]]],
              LAMBDA e : e.qty > 0)
          rows == [k \in DOMAIN entries |->
                     manufacturer_entry(base_rid, entries[k].item, entries[k].qty,
                                        manu_name, batch_num, entries[k].at)]
      IN Result(df \o rows, TRUE, "Dispatch submitted to City")

\* city_ui: the record panel shows the manufacturer buttons (line 658); the
\* number_input default int(record.get("Dispatch_Qty") or 0) raises on NaN
\* and on text that is no number, and the run then ends before the buttons.
city_dispatch_actionable(df, sel_id) ==
    /\ sel_id \in Request_IDs(df)
    /\ startswith_PendingCityApproval(first_row(df, sel_id)["Status"])
    /\ LET q == first_row(df, sel_id)["Dispatch_Qty"]
       IN q = "" \/ int(q) >= 0

\* city_ui: the record panel shows the contractor buttons (line 715)
city_request_actionable(df, sel_id) ==
    /\ sel_id \in Request_IDs(df)
    /\ ~ startswith_PendingCityApproval(first_row(df, sel_id)["Status"])
    /\ first_row(df, sel_id)["Status"] = PendingVerification

\* city_ui: the value "Approved Quantity to accept into stock" shows before the
\* reviewer changes it (line 660; the panel is shown only if int() succeeds)
default_approved_qty(df, sel_id) == int(first_row(df, sel_id)["Dispatch_Qty"])

\* city_ui: the value "Approved Qty" shows before the reviewer changes it
\* (lines 717-721: 0 when int() raises)
default_qty(df, sel_id) ==
    LET q == int(first_row(df, sel_id)["Requested_Qty"])
    IN IF q >= 0 THEN q ELSE 0

\* city_ui: "Approve Manufacturer Dispatch"
approve_dispatch(df, sel_id, approved_qty, now) ==
    Result(loc_set(df, sel_id,
                   [Approved_Qty |-> str(approved_qty),
                    Status |-> ApprovedIssued,
                    Date_Approved |-> strftime(now)]),
           TRUE, "Manufacturer dispatch approved and issued to stock.")

\* city_ui: "Decline Manufacturer Dispatch"
decline_dispatch(df, sel_id, decline_reason) ==
    LET reason == IF truthy(decline_reason) THEN decline_reason ELSE "No reason provided"
    IN Result(loc_set(df, sel_id, [Status |-> Declined, Decline_Reason |-> reason]),
              TRUE, "Manufacturer dispatch declined.")

\* "Approve Contractor Request" as it would be if an approval of nothing were
\* refused
approve_request_refusing_zero(df, sel_id, qty, now) ==
    IF qty = 0 THEN Result(df, FALSE, "Approved Qty must be positive")
    ELSE Result(loc_set(df, sel_id,
                        [Approved_Qty |-> str(qty),
                         Status |-> ApprovedIssued,
                         Date_Approved |-> strftime(now)]),
                TRUE, "Approved and issued.")

\* city_ui: "Approve Contractor Request"
approve_request(df, sel_id, qty, now) ==
    Result(loc_set(df, sel_id,
                   [Approved_Qty |-> str(qty),
                    Status |-> ApprovedIssued,
                    Date_Approved |-> strftime(now)]),
           TRUE, "Approved and issued.")

\* city_ui: "Decline Contractor Request"
decline_request(df, sel_id, decline_reason) ==
    Result(loc_set(df, sel_id, [Status |-> Declined, Decline_Reason |-> decline_reason]),
           TRUE, "Declined.")

\* installer_ui: the rows offered in "Mark as received (Request ID)"
installer_approved(df, name) ==
    LET installer == lower(strip(name))
        notna_any == \E i \in DOMAIN df : df[i]["Installer_Name"] # NaN
        mine == IF notna_any
                  THEN SelectSeq(df, LAMBDA r : lower(r["Installer_Name"]) = installer)
                  ELSE df
    IN SelectSeq(mine, LAMBDA r : r["Status"] # NaN /\ contains_Approved(r["Status"]))

\* installer_ui: "Mark as Received"
mark_received(df, sel, now) ==
    Result(loc_set(df, sel, [Status |-> Received, Date_Received |-> strftime(now)]),
           TRUE, "marked as received.")

\* manager_ui: the columns of the edit form
FormColumns ==
    {"Contractor_Name", "Installer_Name", "Meter_Type", "Requested_Qty",
     "Approved_Qty", "Status", "Manufacturer_Name", "Batch_Number", "Dispatch_Qty"}

\* sorted(...) of the status texts: their order as Python strings
sort_rank(status) == CASE status = ApprovedIssued -> 1
                       [] status = Declined -> 2
                       [] status = PendingCityApproval -> 3
                       [] status = PendingVerification -> 4
                       [] status = Received -> 5
                       [] OTHER -> 6

\* The options of the Status selectbox as they would be if the manager could
\* also choose a status of their own
status_options_with_other(df) ==
    {df[i]["Status"] : i \in DOMAIN df} \cup {"Cancelled"}

\* manager_ui: the options of the Status selectbox
status_options(df) ==
    LET present == {df[i]["Status"] : i \in DOMAIN df} \ {NaN}
    IN IF present = {} THEN Statuses ELSE present

\* manager_ui: the form as displayed for the selected record
\* (status_options is sorted; its first entry is the default when the record's
\* status is not among the options)
form_defaults(df, selected_id) ==
    LET record == first_row(df, selected_id)
        opts == status_options(df)
        lowest == CHOOSE o \in opts : \A x \in opts : sort_rank(o) <= sort_rank(x)
    IN [c \in FormColumns |->
          IF c = "Status"
            THEN (IF safe(record["Status"]) \in opts THEN safe(record["Status"]) ELSE lowest)
            ELSE safe(record[c])]

\* "Save Changes" as it would be if a record that is no longer on disk were
\* written back from the form
save_changes_recreating(df, selected_id, form, now) ==
    LET idx == RowsOf(df, selected_id)
        row == [c \in Columns |->
                  IF c \in FormColumns THEN form[c]
                  ELSE IF c = "Request_ID" THEN selected_id ELSE ""]
    IN IF idx = {} THEN Result(df \o <<row>>, TRUE, "Record updated successfully.")
       ELSE
         LET i == CHOOSE k \in idx : \A j \in idx : k <= j
             edited == at_set(df, i, form)
             stamped ==
                 IF form["Status"] = ApprovedIssued /\ safe(edited[i]["Date_Approved"]) = ""
                   THEN at_set(edited, i, [Date_Approved |-> strftime(now)])
                   ELSE edited
         IN Result(stamped, TRUE, "Record updated successfully.")

\* "Save Changes" as it would be if the edit also stamped the row anew
save_changes_restamping(df, selected_id, form, now) ==
    LET idx == RowsOf(df, selected_id)
    IN IF idx = {} THEN Result(df, FALSE, "Record not found on disk")
       ELSE
         LET i == CHOOSE k \in idx : \A j \in idx : k <= j
             edited == at_set(at_set(df, i, form), i, [Date_Requested |-> strftime(now)])
         IN Result(edited, TRUE, "Record updated successfully.")

\* manager_ui: "Save Changes" (df is the frame re-read at line 838)
save_changes(df, selected_id, form, now) ==
    LET idx == RowsOf(df, selected_id)
    IN IF idx = {} THEN Result(df, FALSE, "Record not found on disk")
       ELSE
         LET i == CHOOSE k \in idx : \A j \in idx : k <= j
             edited == at_set(df, i, form)
             stamped ==
                 IF form["Status"] = ApprovedIssued /\ safe(edited[i]["Date_Approved"]) = ""
                   THEN at_set(edited, i, [Date_Approved |-> strftime(now)])
                   ELSE edited
         IN Result(stamped, TRUE, "Record updated successfully.")

\* manager_ui: "Delete Record" (df is the frame re-read at line 876)
delete_record(df, selected_id, confirm_delete) ==
    IF ~ confirm_delete THEN Result(df, FALSE, "Please confirm deletion")
    ELSE IF selected_id \notin Request_IDs(df) THEN Result(df, FALSE, "Record not found")
    ELSE Result(drop_id(df, selected_id), TRUE, "deleted.")

\* ------------------------------------------------------- widget values
\* One button press: the button, and the values of the widgets its handler
\* reads.  Unused fields keep their blank value.

NoForm == [c \in FormColumns |-> ""]

Call(op, rid, text, q1, q2, flag, form) ==
    [op |-> op, rid |-> rid, text |-> text, q1 |-> q1, q2 |-> q2,
     flag |-> flag, form |-> form]

NoCall == Call("none", "", "", 0, 0, FALSE, NoForm)

InstallerNameInputs == {"", "Installer1"}
BatchInputs == {"", " ", "B100"}
ReasonInputs == {"", " ", "Damaged batch"}
QtyInputs == 0..MaxQty
ApproveQtyInputs == 0..(MaxQty + 1)
ManagerQtyInputs == {"1"}

ContractorCalls ==
    {Call("contractor_submit", "", n, m, k, FALSE, NoForm) :
        n \in InstallerNameInputs, m \in QtyInputs, k \in QtyInputs}

\* The manufacturer dispatches meters only (its keypad quantity stays 0).
ManufacturerCalls ==
    {Call("manufacturer_submit", "", b, m, 0, FALSE, NoForm) :
        b \in BatchInputs, m \in QtyInputs}

ApproveDispatchCalls(df) ==
    {Call("approve_dispatch", id, "", q, 0, FALSE, NoForm) :
        id \in Request_IDs(df), q \in ApproveQtyInputs}

DeclineDispatchCalls(df) ==
    {Call("decline_dispatch", id, r, 0, 0, FALSE, NoForm) :
        id \in Request_IDs(df), r \in ReasonInputs}

ApproveRequestCalls(df) ==
    {Call("approve_request", id, "", q, 0, FALSE, NoForm) :
        id \in Request_IDs(df), q \in ApproveQtyInputs}

DeclineRequestCalls(df) ==
    {Call("decline_request", id, r, 0, 0, FALSE, NoForm) :
        id \in Request_IDs(df), r \in ReasonInputs}

MarkReceivedCalls(df) ==
    {Call("mark_received", id, "", 0, 0, FALSE, NoForm) : id \in Request_IDs(df)}

\* The manager leaves the form as displayed, or changes the Status, or
\* changes the Approved Qty.
FormsFor(df, id) ==
    LET shown == form_defaults(df, id)
    IN {shown}
       \cup {[shown EXCEPT !["Status"] = st] : st \in status_options(df)}
       \cup {[shown EXCEPT !["Approved_Qty"] = q] : q \in ManagerQtyInputs}

SaveChangesCalls(df) ==
    UNION {{Call("save_changes", id, "", 0, 0, FALSE, f) : f \in FormsFor(df, id)} :
              id \in Request_IDs(df)}

DeleteCalls(df) ==
    {Call("delete_record", id, "", 0, 0, c, NoForm) :
        id \in Request_IDs(df), c \in BOOLEAN}

\* Routing (lines 923-942): the panel a logged-in session is shown
panel(a) == IF a.logged_in THEN a.role ELSE "login"

\* The panel that holds the button of call c
panel_of(c) ==
    CASE c.op = "contractor_submit" -> "contractor"
      [] c.op = "manufacturer_submit" -> "manufacturer"
      [] c.op \in {"approve_dispatch", "decline_dispatch",
                   "approve_request", "decline_request"} -> "city"
      [] c.op = "mark_received" -> "installer"
      [] c.op \in {"save_changes", "delete_record"} -> "manager"
      [] OTHER -> "none"

\* The widgets of the panel: whether a run of a session with session state a,
\* having loaded df, reaches the button of call c with these widget values.
Available(c, df, a) ==
    /\ panel(a) = panel_of(c)
    /\ CASE c.op \in {"contractor_submit", "manufacturer_submit"} -> TRUE
         [] c.op \in {"approve_dispatch", "decline_dispatch"} ->
               city_dispatch_actionable(df, c.rid)
         [] c.op \in {"approve_request", "decline_request"} ->
               city_request_actionable(df, c.rid)
         [] c.op = "mark_received" ->
               c.rid \in Request_IDs(installer_approved(df, a.name))
         [] c.op \in {"save_changes", "delete_record"} ->
               c.rid \in Request_IDs(df)
         [] OTHER -> FALSE

\* The handler of call c.  df is the frame the run loaded when it started;
\* fresh is the frame the manager handlers re-read just before writing; now
\* is the sequence of the clock readings of the run.
Apply(c, df, fresh, name, now) ==
    CASE c.op = "contractor_submit" -> contractor_submit(df, name, c.text, c.q1, c.q2, now)
      [] c.op = "manufacturer_submit" -> manufacturer_submit(df, name, c.text, c.q1, c.q2, now)
      [] c.op = "approve_dispatch" -> approve_dispatch(df, c.rid, c.q1, now[1])
      [] c.op = "decline_dispatch" -> decline_dispatch(df, c.rid, c.text)
      [] c.op = "approve_request" -> approve_request(df, c.rid, c.q1, now[1])
      [] c.op = "decline_request" -> decline_request(df, c.rid, c.text)
      [] c.op = "mark_received" -> mark_received(df, c.rid, now[1])
      [] c.op = "save_changes" -> save_changes(fresh, c.rid, c.form, now[1])
      [] c.op = "delete_record" -> delete_record(fresh, c.rid, c.flag)
      [] OTHER -> Result(df, FALSE, "")

\* ------------------------------------------------------------- actions

\* A session between two script runs.  A run under way keeps its press, the
\* frame it loaded and, once it has saved, where its notification stands;
\* in SpecBackup, whether its to_csv went through (the archive is still to
\* be made).
Idle == [call |-> NoCall, df |-> <<>>, mail |-> "none", stage |-> "none"]

\* The application after start-up, nobody logged in: the CSV is absent or
\* holds its header only.
InitLogin ==
    /\ disk = <<>>
    /\ clock = 0
    /\ auth = [s \in Sessions |-> LoggedOut]
    /\ run = [s \in Sessions |-> Idle]
    /\ edits = 0
    /\ zip = Absent
    /\ onedrive = Absent

\* The same, once every user has logged in from a browser of their own
\* (SpecLogin reaches this session state).
AllSignedIn ==
    [s \in Sessions |->
        IF TypedUsername[s] \in DOMAIN CREDENTIALS
          THEN [logged_in |-> TRUE,
                username |-> TypedUsername[s],
                role |-> raw_users[TypedUsername[s]].role,
                name |-> raw_users[TypedUsername[s]].name]
          ELSE LoggedOut]

Init ==
    /\ disk = <<>>
    /\ clock = 0
    /\ auth = AllSignedIn
    /\ run = [s \in Sessions |-> Idle]
    /\ edits = 0
    /\ zip = Absent
    /\ onedrive = Absent

\* The passwords typed at the login form: every password of the table and
\* one that is nobody's.
PasswordInputs == {raw_users[u].password : u \in DOMAIN raw_users} \cup {"wrong"}

\* st.session_state.auth after a successful login of username
SignedIn(username) ==
    [logged_in |-> TRUE,
     username |-> username,
     role |-> CREDENTIALS[username].role,
     name |-> CREDENTIALS[username].name]

\* With every handler one step, the second session of the city reviewer adds
\* nothing: Spec leaves it out, SpecRace runs both.
SoloSessions == Sessions \ {"e2", "r2"}

\* The "Login" handler as it would be if the password were not compared
login_any_password(a, username, password) ==
    IF username \in DOMAIN CREDENTIALS THEN SignedIn(username) ELSE a

\* login_ui, the handler of "Login": st.session_state.auth after the press,
\* from a, the auth before it
login(a, username, password) ==
    IF /\ username \in DOMAIN CREDENTIALS
       /\ hash_password(password) = CREDENTIALS[username].password_hash
      THEN SignedIn(username)
      ELSE a

\* login_ui: "Login"
Login(s) ==
    /\ run[s] = Idle
    /\ ~ auth[s].logged_in
    /\ \E username \in {TypedUsername[s]}, password \in PasswordInputs :
         auth' = [auth EXCEPT ![s] = login(auth[s], username, password)]
    /\ UNCHANGED <<disk, clock, run, edits, zip, onedrive>>

\* logout
Logout(s) ==
    /\ run[s] = Idle
    /\ auth[s].logged_in
    /\ auth' = [auth EXCEPT ![s] = LoggedOut]
    /\ UNCHANGED <<disk, clock, run, edits, zip, onedrive>>

\* A second passes.
Tick ==
    /\ clock < MaxClock
    /\ clock' = clock + 1
    /\ UNCHANGED <<disk, auth, run, edits, zip, onedrive>>

\* The clock readings of a run that starts at second t: all of second t, or,
\* in a submit handler, later ones for the rows when the second changes
\* while the handler runs.
Once(t) == <<t, t, t>>

Readings(c, t) ==
    IF c.op \in {"contractor_submit", "manufacturer_submit"}
      THEN {now \in {t} \X (t..MaxClock) \X (t..MaxClock) : now[2] <= now[3]}
      ELSE {Once(t)}

\* What a finished handler leaves when every file operation succeeds: the
\* CSV rewritten and archived if it called save_data, the clock at its last
\* reading, and its message.
Outcome(s, c, r, now) ==
    /\ Len(r.df) <= MaxRecords
    /\ disk' = IF r.saved THEN save_data(r.df) ELSE disk
    /\ IF c.op = "save_changes" /\ r.saved
         THEN edits < MaxEdits /\ edits' = edits + 1
         ELSE edits' = edits
    /\ clock' = IF r.saved THEN now[3] ELSE clock
    /\ LET made == backup_data(zip, onedrive, save_data(r.df), "created", TRUE)
       IN /\ zip' = IF r.saved THEN made.zip ELSE zip
          /\ onedrive' = IF r.saved THEN made.onedrive ELSE onedrive
    /\ UNCHANGED auth

\* One script run of session s in which the button of call c is pressed, with
\* nothing of another session between its load_data and its save_data.  The
\* notification that three of the handlers attempt after save_data leaves
\* every variable as it is: SpecMail runs it as a step of its own.
Handle(s, c) ==
    /\ run[s] = Idle
    /\ LET df == load_data(disk)
       IN /\ Available(c, df, auth[s])
          /\ \E now \in Readings(c, clock) :
                Outcome(s, c, Apply(c, df, df, auth[s].name, now), now)
    /\ UNCHANGED run

ContractorSubmit(s) ==
    /\ panel(auth[s]) = "contractor"
    /\ \E c \in ContractorCalls : Handle(s, c)

ManufacturerSubmit(s) ==
    /\ panel(auth[s]) = "manufacturer"
    /\ \E c \in ManufacturerCalls : Handle(s, c)

CityApproveDispatch(s) ==
    /\ panel(auth[s]) = "city"
    /\ \E c \in ApproveDispatchCalls(load_data(disk)) : Handle(s, c)

CityDeclineDispatch(s) ==
    /\ panel(auth[s]) = "city"
    /\ \E c \in DeclineDispatchCalls(load_data(disk)) : Handle(s, c)

CityApproveRequest(s) ==
    /\ panel(auth[s]) = "city"
    /\ \E c \in ApproveRequestCalls(load_data(disk)) : Handle(s, c)

CityDeclineRequest(s) ==
    /\ panel(auth[s]) = "city"
    /\ \E c \in DeclineRequestCalls(load_data(disk)) : Handle(s, c)

InstallerMarkReceived(s) ==
    /\ panel(auth[s]) = "installer"
    /\ \E c \in MarkReceivedCalls(load_data(disk)) : Handle(s, c)

ManagerSaveChanges(s) ==
    /\ panel(auth[s]) = "manager"
    /\ \E c \in SaveChangesCalls(load_data(disk)) : Handle(s, c)

ManagerDelete(s) ==
    /\ panel(auth[s]) = "manager"
    /\ \E c \in DeleteCalls(load_data(disk)) : Handle(s, c)

Next ==
    \/ Tick
    \/ \E s \in SoloSessions :
         \/ ContractorSubmit(s)
         \/ ManufacturerSubmit(s)
         \/ CityApproveDispatch(s)
         \/ CityDeclineDispatch(s)
         \/ CityApproveRequest(s)
         \/ CityDeclineRequest(s)
         \/ InstallerMarkReceived(s)
         \/ ManagerSaveChanges(s)
         \/ ManagerDelete(s)

Spec == Init /\ [][Next]_vars

\* Logging in and out, from the start of the application.
NextLogin == \E s \in Sessions : Login(s) \/ Logout(s)

SpecLogin == InitLogin /\ [][NextLogin]_vars

\* Not an invariant of SpecLogin: logging in reaches the session state that
\* Init starts from.
NotAllSignedIn == auth # AllSignedIn

\* ------------------------------------------------ interleaved script runs
\* A script run is two file accesses: load_data when the panel starts, and
\* save_data at the end of the pressed button's handler.  Nothing orders the
\* runs of different sessions between the two.

AllCalls(df) ==
    ContractorCalls \cup ManufacturerCalls
      \cup ApproveDispatchCalls(df) \cup DeclineDispatchCalls(df)
      \cup ApproveRequestCalls(df) \cup DeclineRequestCalls(df)
      \cup MarkReceivedCalls(df) \cup SaveChangesCalls(df) \cup DeleteCalls(df)

\* The presses explored in interleaved runs: a contractor request of one item
\* type, an approval of nothing or of one unit, a decline with a reason, a
\* receipt, a manager Save Changes of the form as it was displayed, a
\* confirmed delete.
RaceCalls(df) ==
    {c \in AllCalls(df) :
        CASE c.op = "contractor_submit" -> c.text # "" /\ c.q1 + c.q2 = 1
          [] c.op = "manufacturer_submit" -> FALSE
          [] c.op \in {"approve_dispatch", "approve_request"} -> c.q1 <= 1
          [] c.op \in {"decline_dispatch", "decline_request"} -> c.text = "Damaged batch"
          [] c.op = "delete_record" -> c.flag
          [] c.op = "save_changes" -> c.form = form_defaults(df, c.rid)
          [] OTHER -> TRUE}

InFlight == {s \in Sessions : run[s] # Idle}

\* Script runs that are explored between their read and their write at once
MaxInFlight == 2

\* The frame a run still uses once its button is reached: the manager handlers
\* read the CSV again and use nothing of the first frame but the form values.
kept_frame(c, df) ==
    IF c.op \in {"save_changes", "delete_record"} THEN <<>> ELSE df

\* The run starts: it reads the CSV and reaches the button with its widget
\* values (for the manager, the edit form as this frame displays it).
LoadRun(s) ==
    /\ run[s] = Idle
    /\ Cardinality(InFlight) < MaxInFlight
    /\ LET df == load_data(disk)
       IN \E c \in RaceCalls(df) :
            /\ Available(c, df, auth[s])
            /\ run' = [run EXCEPT ![s] = [call |-> c, df |-> kept_frame(c, df), mail |-> "none",
                                           stage |-> "none"]]
    /\ UNCHANGED <<disk, clock, auth, edits, zip, onedrive>>

\* The handler finishes on the frame the run read (the manager handlers on
\* the frame they re-read) and rewrites the CSV.
SaveRun(s) ==
    /\ run[s] # Idle
    /\ Outcome(s, run[s].call,
               Apply(run[s].call, run[s].df, load_data(disk), auth[s].name, Once(clock)),
               Once(clock))
    /\ run' = [run EXCEPT ![s] = Idle]

\* The sessions whose runs are interleaved: both city reviewers and the
\* manager.
RaceSessions == {"e1", "e2", "r1"}

\* The store the interleaved runs start from: the contractor has requested one
\* meter and one keypad (Spec reaches this store in one step).
RequestedStore ==
    save_data(contractor_submit(<<>>, raw_users["Deezlo"].name, "Installer1", 1, 1, Once(0)).df)

\* Not an invariant of Spec: one contractor submission reaches the store
\* that InitRace starts from.
NotRequestedStore == disk # RequestedStore

InitRace ==
    /\ disk = RequestedStore
    /\ clock = 0
    /\ auth = AllSignedIn
    /\ run = [s \in Sessions |-> Idle]
    /\ edits = 0
    /\ zip = make_archive(RequestedStore)
    /\ onedrive = make_archive(RequestedStore)

NextRace ==
    \/ Tick
    \/ \E s \in RaceSessions : LoadRun(s) \/ SaveRun(s)

SpecRace == InitRace /\ [][NextRace]_vars

\* ------------------------------------------------ two manager sessions
\* The manager signed in from two browsers: an edit form or a delete button
\* shown in one stays on screen while the other one saves.

ManagerSessions == {"r1", "r2"}

\* The run starts: the manager panel loads the CSV, a record is selected and
\* "Save Changes" or "Delete Record" is pressed with the widgets as they are.
LoadManager(s) ==
    /\ run[s] = Idle
    /\ LET df == load_data(disk)
       IN \E c \in SaveChangesCalls(df) \cup DeleteCalls(df) :
            /\ Available(c, df, auth[s])
            /\ run' = [run EXCEPT ![s] = [call |-> c, df |-> kept_frame(c, df), mail |-> "none",
                                           stage |-> "none"]]
    /\ UNCHANGED <<disk, clock, auth, edits, zip, onedrive>>

NextStale ==
    \/ Tick
    \/ \E s \in ManagerSessions : LoadManager(s) \/ SaveRun(s)

SpecStale == InitRace /\ [][NextStale]_vars

\* ------------------------------------------------ failing file operations
\* A script run with its file operations one by one: auto_restore_if_needed,
\* load_data, the handler, to_csv, and, as a later step, backup_data.  The
\* contractor submits and the manager deletes.

BackupSessions == {"c1", "r1"}

\* The presses of these runs: a request of one meter, a confirmed delete.
BackupCalls(df) ==
    {c \in ContractorCalls : c.text # "" /\ c.q1 = 1 /\ c.q2 = 0}
      \cup {c \in DeleteCalls(df) : c.flag}

\* A script run in which no button is pressed
OpenPage(s) ==
    /\ run[s] = Idle
    /\ \E unpacks_local, unpacks_latest \in BOOLEAN :
          disk' = auto_restore_if_needed(disk, zip, onedrive, unpacks_local, unpacks_latest)
    /\ UNCHANGED <<clock, auth, run, edits, zip, onedrive>>

\* A script run up to the first try block of save_data
PressRun(s) ==
    /\ run[s] = Idle
    /\ \E unpacks_local, unpacks_latest, written \in BOOLEAN :
         LET start == auto_restore_if_needed(disk, zip, onedrive,
                                             unpacks_local, unpacks_latest)
             df == load_data(start)
         IN \E c \in BackupCalls(df) :
              /\ Available(c, df, auth[s])
              /\ \E now \in Readings(c, clock) :
                   LET r == Apply(c, df, df, auth[s].name, now)
                   IN /\ r.saved
                      /\ Len(r.df) <= MaxRecords
                      /\ disk' = write_csv(start, r.df, written)
                      /\ clock' = now[3]
                      /\ run' = [run EXCEPT ![s] =
                                   [call |-> c, df |-> r.df, mail |-> "none",
                                    stage |-> IF written THEN "written"
                                                         ELSE "not written"]]
    /\ UNCHANGED <<auth, edits, zip, onedrive>>

\* The rest of save_data, and the handler's st.success
BackupRun(s) ==
    /\ run[s].stage # "none"
    /\ \E outcome \in ZipOutcomes, copied \in BOOLEAN :
         LET made == backup_data(zip, onedrive, disk, outcome, copied)
         IN zip' = made.zip /\ onedrive' = made.onedrive
    /\ run' = [run EXCEPT ![s] = Idle]
    /\ UNCHANGED <<disk, clock, auth, edits>>

NextBackup ==
    \/ Tick
    \/ \E s \in BackupSessions : OpenPage(s) \/ PressRun(s) \/ BackupRun(s)

SpecBackup == Init /\ [][NextBackup]_vars

\* manager_ui: "Restore Latest OneDrive Backup"
ManagerRestore(s) ==
    /\ run[s] = Idle
    /\ panel(auth[s]) = "manager"
    /\ \E unpacks_local, unpacks_latest, unpacks \in BOOLEAN :
         LET start == auto_restore_if_needed(disk, zip, onedrive,
                                             unpacks_local, unpacks_latest)
         IN disk' = IF onedrive.exists
                      THEN restore_from_zip(start, onedrive, unpacks).store
                      ELSE start
    /\ UNCHANGED <<clock, auth, run, edits, zip, onedrive>>

NextRestore ==
    \/ NextBackup
    \/ ManagerRestore("r1")

SpecRestore == Init /\ [][NextRestore]_vars

\* ------------------------------------------------------- notifications
\* Manufacturer submit, manufacturer-dispatch approve and manufacturer-dispatch
\* decline end, after save_data, with a try block that sends an email when a
\* recipient address is configured.

MailOps == {"manufacturer_submit", "approve_dispatch", "decline_dispatch"}

SmtpOutcomes == {"delivered", "error"}

\* send_email: False without sender credentials, True when the SMTP exchange
\* goes through, False when it raises (the exception is caught at line 290)
send_email(credentials, smtp) ==
    IF ~ credentials THEN FALSE ELSE smtp = "delivered"

\* The try block of the handler: nothing attempted without a recipient
\* address; otherwise what send_email returns, or an exception that the
\* handler's own "except Exception: pass" swallows.
try_notify(recipients, credentials, smtp, raises) ==
    IF ~ recipients THEN "not attempted"
    ELSE IF raises THEN "raised"
    ELSE IF send_email(credentials, smtp) THEN "True" ELSE "False"

MailOutcomes == {"not attempted", "raised", "True", "False"}

\* The try block as it would be if a send that did not succeed put back the
\* frame that the run had loaded
after_notify_rolling_back(store, loaded, outcome) ==
    IF outcome \in {"raised", "False"} THEN save_data(loaded) ELSE store

\* The CSV after the try block: the handler ignores what send_email returns
\* and passes on an exception, and writes nothing.
after_notify(store, loaded, outcome) == store

\* The handler of a notifying press up to and including its save_data; the
\* run goes on to its try block only on the branch that saved.
CommitRun(s) ==
    /\ run[s] = Idle
    /\ LET df == load_data(disk)
       IN \E c \in ManufacturerCalls \cup ApproveDispatchCalls(df)
                     \cup DeclineDispatchCalls(df) :
            /\ Available(c, df, auth[s])
            /\ \E now \in Readings(c, clock) :
                 LET r == Apply(c, df, df, auth[s].name, now)
                 IN /\ Outcome(s, c, r, now)
                    /\ run' = IF r.saved
                                THEN [run EXCEPT ![s] =
                                        [call |-> c, df |-> df, mail |-> "pending",
                                         stage |-> "none"]]
                                ELSE run

\* The try block of the run
Notify(s) ==
    /\ run[s].mail = "pending"
    /\ \E recipients, credentials, raises \in BOOLEAN, smtp \in SmtpOutcomes :
         LET outcome == try_notify(recipients, credentials, smtp, raises)
         IN /\ disk' = after_notify(disk, run[s].df, outcome)
            /\ run' = [run EXCEPT ![s].mail = outcome]
    /\ UNCHANGED <<clock, auth, edits, zip, onedrive>>

\* The run ends (safe_rerun after the city handlers, the end of the script
\* after the manufacturer's).
FinishRun(s) ==
    /\ run[s].mail \in MailOutcomes
    /\ run' = [run EXCEPT ![s] = Idle]
    /\ UNCHANGED <<disk, clock, auth, edits, zip, onedrive>>

\* The sessions that notify: the manufacturer and the city reviewer.
MailSessions == {"m1", "e1"}

NextMail ==
    \/ Tick
    \/ \E s \in MailSessions : CommitRun(s) \/ Notify(s) \/ FinishRun(s)

SpecMail == Init /\ [][NextMail]_vars

\* ---------------------------------------------------------------- claims

\* The fields of the lifecycle
LifecycleFields ==
    {"Status", "Approved_Qty", "Decline_Reason", "Date_Approved", "Date_Received"}

\* A step that removes no row keeps every row at its place in the file.
KeepsRows == Len(disk') >= Len(disk)

\* C1: of two city sessions that load the same Pending record and both press
\* Approve, at most one succeeds: the approval that finishes when the record
\* on disk is already Approved / Issued is not applied, so the stored
\* Approved_Qty and Date_Approved stay those of the first one.
C1_SecondApprovalNotApplied ==
    [][\A s \in {"e1", "e2"} :
          (/\ SaveRun(s)
           /\ run[s].call.op = "approve_request"
           /\ run[s].call.rid \in Request_IDs(disk)
           /\ first_row(disk, run[s].call.rid)["Status"] = ApprovedIssued)
          => (/\ run[s].call.rid \in Request_IDs(disk')
              /\ first_row(disk', run[s].call.rid) = first_row(disk, run[s].call.rid))]_vars

\* C2: a record whose Status is Declined or Received is immutable: no step
\* that keeps it in the store changes its Status, Approved_Qty,
\* Decline_Reason, Date_Approved or Date_Received.
C2_TerminalImmutable ==
    [][KeepsRows =>
          \A i \in DOMAIN disk :
             disk[i]["Status"] \in {Declined, Received}
               => \A c \in LifecycleFields : disk'[i][c] = disk[i][c]]_vars

\* C3: the Status of a record never moves backwards: not from
\* Approved / Issued, Declined or Received to a Pending status (every record
\* is created Pending), and not from Received to Approved / Issued.
C3_StatusMonotonic ==
    [][KeepsRows =>
          \A i \in DOMAIN disk :
             /\ disk[i]["Status"] \in {ApprovedIssued, Declined, Received}
                  => disk'[i]["Status"] \notin PendingStatuses
             /\ disk[i]["Status"] = Received
                  => disk'[i]["Status"] # ApprovedIssued]_vars

\* C4: in every state of the store, a record has a Decline_Reason exactly
\* when its Status is Declined.
C4_ReasonIffDeclined ==
    \A i \in DOMAIN disk :
       (disk[i]["Decline_Reason"] # "") <=> (disk[i]["Status"] = Declined)

\* C5: in every state of the store, a record has an Approved_Qty exactly when
\* its Status is Approved / Issued or Received.
C5_QtyIffApproved ==
    \A i \in DOMAIN disk :
       (disk[i]["Approved_Qty"] # "") <=> (disk[i]["Status"] \in {ApprovedIssued, Received})

\* C6: in every state of the store, a record has a Date_Received exactly when
\* its Status is Received.
C6_DateIffReceived ==
    \A i \in DOMAIN disk :
       (disk[i]["Date_Received"] # "") <=> (disk[i]["Status"] = Received)

\* C7: in every state of the store, no two records have the same Request_ID.
C7_RequestIdUnique ==
    \A i, j \in DOMAIN disk :
       disk[i]["Request_ID"] = disk[j]["Request_ID"] => i = j

\* C8: in every state, whichever Pending record the city reviewer selects,
\* Decline with an empty or whitespace-only reason is rejected (nothing is
\* saved, the frame is unchanged), and Decline with any other reason sets
\* Status to Declined and stores exactly that reason.
C8_DeclineNeedsReason ==
    LET df == load_data(disk)
    IN \A s \in SoloSessions :
         \A c \in DeclineRequestCalls(df) \cup DeclineDispatchCalls(df) :
            Available(c, df, auth[s]) =>
              LET r == Apply(c, df, df, auth[s].name, Once(clock))
              IN IF strip(c.text) = ""
                   THEN ~ r.saved /\ r.df = df
                   ELSE /\ r.saved
                        /\ first_row(r.df, c.rid)["Status"] = Declined
                        /\ first_row(r.df, c.rid)["Decline_Reason"] = c.text

\* The step is a city button pressed in a logged-in session of role city.
CityStep ==
    \E s \in Sessions :
       /\ auth[s].logged_in /\ auth[s].role = "city"
       /\ \/ CityApproveDispatch(s) \/ CityDeclineDispatch(s)
          \/ CityApproveRequest(s) \/ CityDeclineRequest(s)

\* The step is "Mark as Received" pressed in a logged-in session of role
\* installer.
InstallerStep ==
    \E s \in Sessions :
       /\ auth[s].logged_in /\ auth[s].role = "installer"
       /\ InstallerMarkReceived(s)

\* The step is a submission of a logged-in contractor or manufacturer.
SubmitterStep ==
    \E s \in Sessions :
       /\ auth[s].logged_in /\ auth[s].role \in {"contractor", "manufacturer"}
       /\ ContractorSubmit(s) \/ ManufacturerSubmit(s)

\* C9: a record goes from a Pending status to Approved / Issued or Declined
\* only in a step of a session of role city, from Approved / Issued to
\* Received only in a step of a session of role installer, and a record is
\* added only in a step of a session of role contractor or manufacturer.
C9_RoleOwnsTransition ==
    [][/\ KeepsRows =>
            \A i \in DOMAIN disk :
               /\ (/\ disk[i]["Status"] \in PendingStatuses
                   /\ disk'[i]["Status"] \in {ApprovedIssued, Declined}) => CityStep
               /\ (/\ disk[i]["Status"] = ApprovedIssued
                   /\ disk'[i]["Status"] = Received) => InstallerStep
       /\ Len(disk') > Len(disk) => SubmitterStep]_vars

\* C10: "Mark as Received" pressed by an installer moves a record to Received
\* only if the record's Installer_Name equals the installer's name, letter
\* case aside.
C10_ReceivedByNamedInstaller ==
    [][\A s \in Sessions :
          InstallerMarkReceived(s) =>
             \A i \in DOMAIN disk :
                (disk[i]["Status"] # Received /\ disk'[i]["Status"] = Received)
                  => lower(disk[i]["Installer_Name"]) = lower(strip(auth[s].name))]_vars

\* Row i of the file has a lifecycle field changed by the step.
Touched(i) == \E c \in LifecycleFields : disk'[i][c] # disk[i][c]

\* C11: a city Approve or Decline changes only rows whose Status is Pending
\* Verification or Pending City Approval (Manufacturer Delivery), and an
\* installer's Mark as Received changes only rows whose Status is
\* Approved / Issued; rows in any other status are left as they are.
C11_ActsOnlyOnItsStatus ==
    [][KeepsRows =>
          \A i \in DOMAIN disk :
             /\ (CityStep /\ Touched(i)) => disk[i]["Status"] \in PendingStatuses
             /\ (InstallerStep /\ Touched(i)) => disk[i]["Status"] = ApprovedIssued]_vars

\* C12: no lost update: when the run of a session finishes and saves, every
\* record other than the one the run acts on is in the store afterwards
\* exactly as it was in the store just before (what other sessions have
\* committed to other records since the run loaded is neither reverted nor
\* dropped).
C12_NoLostUpdate ==
    [][\A s \in RaceSessions :
          SaveRun(s) =>
             \A id \in Request_IDs(disk) \ {run[s].call.rid} :
                /\ id \in Request_IDs(disk')
                /\ first_row(disk', id) = first_row(disk, id)]_vars

\* The quantity a row offers: Dispatch_Qty of a manufacturer dispatch,
\* Requested_Qty of a contractor request (cells as they are in the file).
Offered(row) ==
    IF row["Dispatch_Qty"] # "" THEN int(row["Dispatch_Qty"]) ELSE int(row["Requested_Qty"])

\* C13: in every state, no record has an Approved_Qty above the quantity it
\* offers, and whichever Pending record the city reviewer selects, Approve
\* with a quantity above the offered one is rejected (nothing is saved, the
\* frame is unchanged).
C13_ApprovedWithinOffered ==
    /\ \A i \in DOMAIN disk :
          disk[i]["Approved_Qty"] # "" => int(disk[i]["Approved_Qty"]) <= Offered(disk[i])
    /\ LET df == load_data(disk)
       IN \A s \in SoloSessions :
            \A c \in ApproveRequestCalls(df) \cup ApproveDispatchCalls(df) :
               (Available(c, df, auth[s]) /\ c.q1 > Offered(first_row(disk, c.rid))) =>
                  LET r == Apply(c, df, df, auth[s].name, Once(clock))
                  IN ~ r.saved /\ r.df = df

\* The approve presses of the city panel
ApproveCalls(df) == ApproveRequestCalls(df) \cup ApproveDispatchCalls(df)

\* The quantity the approve widget of call c shows by default
DefaultOf(c, df) ==
    IF c.op = "approve_dispatch" THEN default_approved_qty(df, c.rid)
    ELSE default_qty(df, c.rid)

\* The cell that holds the quantity offered to the panel of call c:
\* Dispatch_Qty on the manufacturer panel, Requested_Qty on the contractor one
OfferedCell(c) ==
    IF c.op = "approve_dispatch"
      THEN first_row(disk, c.rid)["Dispatch_Qty"]
      ELSE first_row(disk, c.rid)["Requested_Qty"]

C15_DatesWrittenOnce ==
    [][KeepsRows =>
          \A i \in DOMAIN disk :
             \A c \in {"Date_Approved", "Date_Received"} :
                disk[i][c] # "" => disk'[i][c] = disk[i][c]]_vars

\* The Request_ID and the Date_Requested of a row
Identity(row) == <<row["Request_ID"], row["Date_Requested"]>>

\* C16: no step changes the Request_ID or the Date_Requested of a record that
\* stays in the store: a step that removes no row leaves both as they are in
\* every row, and a step that removes rows leaves only rows whose Request_ID
\* and Date_Requested were in the store before.
C16_IdentityImmutable ==
    [][/\ KeepsRows => \A i \in DOMAIN disk : Identity(disk'[i]) = Identity(disk[i])
       /\ ~ KeepsRows =>
            \A j \in DOMAIN disk' : \E i \in DOMAIN disk : Identity(disk'[j]) = Identity(disk[i])]_vars

\* C16, its case: a request made at second 0 has since been approved,
\* received and edited by the manager, next to a second record.
C16_RecordWithHistory ==
    /\ clock = 1 /\ edits = 1 /\ Len(disk) = 2
    /\ \E i \in DOMAIN disk :
          /\ disk[i]["Status"] = Received
          /\ disk[i]["Date_Received"] = strftime(1)
          /\ Identity(disk[i]) = <<generate_request_id("REQ", 0) \o "-DN15_Meter", strftime(0)>>

\* The rows that frame new has after the rows of frame old, as save_data
\* writes them
Added(old, new) == SubSeq(save_data(new), Len(old) + 1, Len(new))

\* A row as a submission must leave it: nothing of the later lifecycle in it
Fresh(row) ==
    /\ row["Approved_Qty"] = "" /\ row["Decline_Reason"] = ""
    /\ row["Date_Approved"] = "" /\ row["Date_Received"] = ""

\* C17: in every state, a contractor's Submit Request with an empty installer
\* name or with both quantities 0 saves nothing and leaves the frame
\* unchanged; any other one keeps the rows of the store and adds rows that
\* each have Status Pending Verification, a Requested_Qty above 0, a Meter_Type
\* and no Approved_Qty, Decline_Reason, Date_Approved or Date_Received.
C17_ContractorRowsWellFormed ==
    LET df == load_data(disk)
    IN \A s \in SoloSessions :
         \A c \in ContractorCalls :
            Available(c, df, auth[s]) => \A now \in Readings(c, clock) :
               LET r == Apply(c, df, df, auth[s].name, now)
               IN IF c.text = "" \/ (c.q1 = 0 /\ c.q2 = 0)
                    THEN ~ r.saved /\ r.df = df
                    ELSE /\ r.saved
                         /\ SubSeq(r.df, 1, Len(df)) = df
                         /\ Len(r.df) > Len(df)
                         /\ \A k \in DOMAIN Added(df, r.df) :
                               LET row == Added(df, r.df)[k]
                               IN /\ row["Status"] = PendingVerification
                                  /\ int(row["Requested_Qty"]) > 0
                                  /\ row["Meter_Type"] # ""
                                  /\ Fresh(row)

\* C17, its case: a contractor request has been added to a store that held a
\* record already.
C17_RequestAdded ==
    /\ Len(disk) = 2
    /\ disk[1]["Status"] # PendingVerification
    /\ disk[2]["Status"] = PendingVerification
    /\ disk[2]["Contractor_Name"] = raw_users["Deezlo"].name
    /\ disk[2]["Requested_Qty"] = "1"

\* Every press of "Submit Dispatch to City": any batch text, and a quantity
\* for each of the two products
DispatchPresses ==
    {Call("manufacturer_submit", "", b, m, k, FALSE, NoForm) :
        b \in BatchInputs, m \in QtyInputs, k \in QtyInputs}

\* C18: in every state, a manufacturer's Submit Dispatch to City with a blank
\* batch number or with both quantities 0 saves nothing and leaves the frame
\* unchanged; any other one keeps the rows of the store and adds rows that
\* each have Status Pending City Approval (Manufacturer Delivery), a
\* Dispatch_Qty above 0, a Batch_Number that is not blank, and no
\* Approved_Qty, Decline_Reason, Date_Approved or Date_Received.
C18_DispatchRowsWellFormed ==
    LET df == load_data(disk)
    IN \A s \in SoloSessions :
         \A c \in DispatchPresses :
            Available(c, df, auth[s]) => \A now \in Readings(c, clock) :
               LET r == Apply(c, df, df, auth[s].name, now)
               IN IF strip(c.text) = "" \/ (c.q1 = 0 /\ c.q2 = 0)
                    THEN ~ r.saved /\ r.df = df
                    ELSE /\ r.saved
                         /\ SubSeq(r.df, 1, Len(df)) = df
                         /\ Len(r.df) > Len(df)
                         /\ \A k \in DOMAIN Added(df, r.df) :
                               LET row == Added(df, r.df)[k]
                               IN /\ row["Status"] = PendingCityApproval
                                  /\ int(row["Dispatch_Qty"]) > 0
                                  /\ strip(row["Batch_Number"]) # ""
                                  /\ Fresh(row)

\* C18, its case: a manufacturer dispatch has been added to a store that held
\* a record already.
C18_DispatchAdded ==
    /\ Len(disk) = 2
    /\ disk[1]["Status"] # PendingCityApproval
    /\ disk[2]["Status"] = PendingCityApproval
    /\ disk[2]["Manufacturer_Name"] = raw_users["manufacturer1"].name
    /\ disk[2]["Batch_Number"] = "B100"
    /\ disk[2]["Dispatch_Qty"] = "1"


\* The item types a Submit Request with quantities c.q1 and c.q2 asks for
Positive(c) == {k \in 1..2 : <<c.q1, c.q2>>[k] > 0}

\* C19: in every state, an accepted Submit Request of a contractor adds
\* exactly one row for each item type whose quantity is positive and none for
\* an item type of quantity 0; the ids of the added rows are one base
\* identifier followed by the suffix of the row's item type, and the added
\* rows all have the same Date_Requested, whatever the seconds at which the
\* handler read the clock.
C19_OneRowPerItemSameStamp ==
    LET df == load_data(disk)
    IN \A s \in SoloSessions :
         \A c \in ContractorCalls :
            (Available(c, df, auth[s]) /\ c.text # "" /\ c.q1 + c.q2 > 0) =>
               \A now \in Readings(c, clock) :
                  LET r == Apply(c, df, df, auth[s].name, now)
                      rows == Added(df, r.df)
                  IN /\ r.saved
                     /\ Len(rows) = Cardinality(Positive(c))
                     /\ \A k \in Positive(c) :
                           Cardinality({j \in DOMAIN rows :
                                          rows[j]["Meter_Type"] = ItemTypes[k]}) = 1
                     /\ \E base \in {generate_request_id("REQ", t) : t \in 0..MaxClock} :
                           \A j \in DOMAIN rows :
                              rows[j]["Request_ID"] =
                                 base \o "-" \o item_suffix(rows[j]["Meter_Type"])
                     /\ \A j, k \in DOMAIN rows :
                           rows[j]["Date_Requested"] = rows[k]["Date_Requested"]


\* The step is the commit of a notifying run of session s: the run enters its
\* try block.
Committed(s) == run[s].mail = "none" /\ run'[s].mail = "pending"

\* The step is the try block of a run of session s, with any outcome.
Attempted(s) == run[s].mail # run'[s].mail /\ run'[s].mail \in MailOutcomes

NotFoundMessages == {"Record not found on disk", "Record not found"}

\* C22: a manager Save Changes, or a Delete Record with the confirmation
\* ticked, that finishes when its selected Request_ID is no longer in the
\* store (the other manager session has deleted it since the form was shown)
\* reports that the record was not found, saves nothing and leaves the store
\* as it is: the record is not created again.
C22_GoneRecordNotFound ==
    [][\A s \in ManagerSessions :
          (/\ SaveRun(s)
           /\ run[s].call.op = "delete_record" => run[s].call.flag
           /\ run[s].call.rid \notin Request_IDs(disk))
          => LET r == Apply(run[s].call, run[s].df, load_data(disk),
                            auth[s].name, Once(clock))
             IN /\ ~ r.saved
                /\ r.msg \in NotFoundMessages
                /\ disk' = disk
                /\ edits' = edits]_vars

\* Reached: both managers had the same record selected; one has deleted it
\* and the Save Changes of the other one is about to re-read the store.
C22_EditOfDeletedRecord ==
    /\ Len(disk) = 1
    /\ edits = 0
    /\ run["r2"] = Idle
    /\ run["r1"].call.op = "save_changes"
    /\ run["r1"].call.rid \notin Request_IDs(disk)


\* C24: a manager Save Changes of the form as it was displayed (the manager
\* has changed no field) neither overwrites nor reverts what other sessions
\* have committed since the form was displayed: every row is in the store
\* afterwards with every field of the form as it was in the store just before
\* the save.
C24_SaveKeepsWhatOthersCommitted ==
    [][(/\ SaveRun("r1")
        /\ run["r1"].call.op = "save_changes")
       => /\ Len(disk') = Len(disk)
          /\ \A i \in DOMAIN disk :
                \A c \in FormColumns : disk'[i][c] = disk[i][c]]_vars


\* The step is "Save Changes" pressed in a session of the manager.
ManagerSaveStep == \E s \in Sessions : ManagerSaveChanges(s)

\* The rows of the file that the step leaves different
ChangedRows == {i \in DOMAIN disk : disk'[i] # disk[i]}

\* C25: a city Approve or Decline, an installer's Mark as Received and a
\* manager Save Changes keep every row of the store and change at most one of
\* them: every field of every other row is after the step as it was before.
C25_OneRecordChanged ==
    [][(CityStep \/ InstallerStep \/ ManagerSaveStep)
          => /\ Len(disk') = Len(disk)
             /\ Cardinality(ChangedRows) <= 1]_vars


\* The step is "Delete Record" pressed in a session of the manager.
ManagerDeleteStep == \E s \in Sessions : ManagerDelete(s)

\* The file without its row i
WithoutRow(file, i) == SubSeq(file, 1, i - 1) \o SubSeq(file, i + 1, Len(file))

\* Delete Record without the confirmation saves nothing, whatever is selected.
UnconfirmedDeleteKeepsStore ==
    LET df == load_data(disk)
    IN \A s \in SoloSessions :
         \A c \in DeleteCalls(df) :
            (Available(c, df, auth[s]) /\ ~ c.flag) =>
               LET r == Apply(c, df, df, auth[s].name, Once(clock))
               IN ~ r.saved /\ r.df = df

\* C26: records leave the store only through a confirmed manager delete:
\* Delete Record without the confirmation leaves the store as it is, a step
\* of Delete Record that changes the store removes exactly one row, the
\* selected one, and every other step keeps every row of the store at its
\* place with its Request_ID.
C26_OnlyConfirmedDeleteRemoves ==
    [][/\ UnconfirmedDeleteKeepsStore
       /\ IF ManagerDeleteStep
            THEN \E i \in DOMAIN disk : disk' = WithoutRow(disk, i)
            ELSE /\ Len(disk') >= Len(disk)
                 /\ \A i \in DOMAIN disk :
                       disk'[i]["Request_ID"] = disk[i]["Request_ID"]]_vars


\* C28: in every state, the Status of every record is one of Pending
\* Verification, Pending City Approval (Manufacturer Delivery),
\* Approved / Issued, Declined and Received, and the Status selectbox of the
\* manager's edit form offers no other value.
C28_StatusOneOfFive ==
    /\ \A i \in DOMAIN disk : disk[i]["Status"] \in Statuses
    /\ status_options(load_data(disk)) \subseteq Statuses

\* Reached: the manager has saved a status of their own choice (a record is
\* Received with no Date_Received, which no installer leaves behind).
C28_ManagerChoseStatus ==
    /\ edits = 1
    /\ \E i \in DOMAIN disk :
          disk[i]["Status"] = Received /\ disk[i]["Date_Received"] = ""


\* The user names typed at the login form: those of the sessions
UsernameInputs == {TypedUsername[s] : s \in Sessions}

\* The auth of a session is that of nobody, or that of a user of the table.
AuthConsistent(a) ==
    IF a.logged_in
      THEN /\ a.username \in DOMAIN raw_users
           /\ a.role = raw_users[a.username].role
           /\ a.name = raw_users[a.username].name
      ELSE a = LoggedOut /\ panel(a) = "login"

\* C29: after any sequence of login attempts and logouts, the auth of every
\* session is that of nobody (and the session is shown the login form, no
\* role panel) or that of a user of the table; a Login press with a user name
\* of the table and that user's password gives the session that user's
\* username, role and name, and any other Login press leaves the auth as it
\* is; a step that changes the auth of a session is such a login of a session
\* that was logged out, or a logout that leaves logged_in false and username,
\* role and name None.
C29_SessionConsistent ==
    [][\A s \in Sessions :
          /\ AuthConsistent(auth[s]) /\ AuthConsistent(auth'[s])
          /\ \A username \in UsernameInputs, password \in PasswordInputs :
                LET a == login(auth[s], username, password)
                IN IF /\ username \in DOMAIN raw_users
                      /\ password = raw_users[username].password
                     THEN a = [logged_in |-> TRUE, username |-> username,
                               role |-> raw_users[username].role,
                               name |-> raw_users[username].name]
                     ELSE a = auth[s]
          /\ auth'[s] # auth[s] =>
                IF auth[s].logged_in
                  THEN auth'[s] = LoggedOut
                  ELSE /\ auth'[s].logged_in
                       /\ auth'[s].username = TypedUsername[s]]_vars

\* Reached: the manager is logged in from one browser, and neither the
\* contractor nor the stranger is.
C29_ManagerLoggedIn ==
    /\ auth["r1"].logged_in /\ auth["r1"].role = "manager"
    /\ ~ auth["c1"].logged_in
    /\ ~ auth["x1"].logged_in


\* When every file operation succeeds, the archives hold the CSV as it is and
\* auto_restore_if_needed changes nothing: Spec, SpecRace, SpecStale and
\* SpecMail leave it out of their script runs.
BackupsCurrent ==
    /\ zip.exists => zip.csv = disk
    /\ onedrive.exists => onedrive.csv = disk
    /\ auto_restore_if_needed(disk, zip, onedrive, TRUE, TRUE) = disk

\* The step ends a run of session s that called save_data: the handler shows
\* its success message.
ReportsSuccess(s) == run[s].stage # "none" /\ run'[s] = Idle

\* C21: no error is swallowed: a submission or a delete that reports success
\* has written its frame to the main data file (when df.to_csv fails, the
\* run does not end with the success message).
C21_SuccessMeansWritten ==
    [][\A s \in BackupSessions :
          ReportsSuccess(s) => run[s].stage = "written"]_vars

SubmittedIds(s) ==
    IF run[s] = Idle /\ run'[s].call.op = "contractor_submit"
      THEN {run'[s].df[Len(run'[s].df)]["Request_ID"]}
      ELSE {}

\* C27: a record deleted by the manager never reappears (in SpecBackup a
\* record leaves the store only by a confirmed delete): a Request_ID that is
\* not in the store enters it only as the id of the row that a submission
\* appends, never through the automatic restore at the start of a script
\* run, whether the backups have succeeded or not.
C27_DeletedStaysDeleted ==
    [][\A id \in Request_IDs(disk') \ Request_IDs(disk) :
          \E s \in BackupSessions : id \in SubmittedIds(s)]_vars

\* C30: in every state, a restore_from_zip of the latest OneDrive archive
\* that cannot unpack it returns False and leaves the records of the store
\* in the store, and auto_restore_if_needed leaves a CSV that holds a record
\* as it is.
C30_FailedRestoreKeepsStore ==
    /\ onedrive.exists =>
          LET restored == restore_from_zip(disk, onedrive, FALSE)
          IN ~ restored.ok /\ restored.store = disk
    /\ disk # <<>> =>
          \A unpacks_local, unpacks_latest \in BOOLEAN :
             auto_restore_if_needed(disk, zip, onedrive, unpacks_local, unpacks_latest) = disk

=============================================================================
